---- MODULE Spec2Model ----
(***************************************************************************)
(* A model of follow-claim (claim.go): the startup sequence of main, the   *)
(* daily cron trigger, and the task closure that calls signFollow and      *)
(* getCoinBalance and reports through Bark and Telegram.                   *)
(*                                                                         *)
(* Texts are TLA+ strings; a character is a string of length one.          *)
(***************************************************************************)
EXTENDS Integers, Sequences, FiniteSets, TLC

VARIABLES env, pc, config, hour, minute, entries, armed, exitCode, mainLog,
          clock, fired, runs, last, completed, reports, requests, arg, parsed

vars == <<env, pc, config, hour, minute, entries, armed, exitCode, mainLog,
          clock, fired, runs, last, completed, reports, requests, arg, parsed>>

(***************************************************************************)
(* Bounds of the model.                                                    *)
(***************************************************************************)
\* Number of daily firings explored.
MaxRuns == 2
\* Length of one day, in units of the HTTP client timeout (really 5760).
DayTicks == 5
\* Longest string given to parseScheduledTime in SpecParse.
MaxLen == 5

\* An HTTP client that waits for an answer as long as a day.
TimeoutOfADay == DayTicks

\* The HTTP client timeout (15 s), the unit of the model's clock.
TimeoutTicks == 1

(***************************************************************************)
(* strconv.Atoi and bytes.Split.                                           *)
(***************************************************************************)
Char(s, i) == SubSeq(s, i, i)

Digits == <<"0", "1", "2", "3", "4", "5", "6", "7", "8", "9">>

IsDigit(ch) == \E i \in 1..10 : Digits[i] = ch

DigitVal(ch) == (CHOOSE i \in 1..10 : Digits[i] = ch) - 1

RECURSIVE DecVal(_)
DecVal(s) ==
    IF s = "" THEN 0
    ELSE 10 * DecVal(SubSeq(s, 1, Len(s) - 1)) + DigitVal(Char(s, Len(s)))

\* Atoi taking the empty string for zero.
AtoiAcceptsEmpty(s) ==
    LET signed == s # "" /\ Char(s, 1) \in {"+", "-"}
        body   == IF signed THEN Tail(s) ELSE s
    IN  IF \E i \in 1..Len(body) : ~IsDigit(Char(body, i))
        THEN [err |-> "strconv.Atoi: parsing \"" \o s \o "\": invalid syntax", val |-> 0]
        ELSE [err |-> "",
              val |-> IF signed /\ Char(s, 1) = "-"
                      THEN 0 - DecVal(body) ELSE DecVal(body)]

\* strconv.Atoi: an optional sign, then one or more decimal digits.
Atoi(s) ==
    LET signed == s # "" /\ Char(s, 1) \in {"+", "-"}
        body   == IF signed THEN Tail(s) ELSE s
    IN  IF body = "" \/ \E i \in 1..Len(body) : ~IsDigit(Char(body, i))
        THEN [err |-> "strconv.Atoi: parsing \"" \o s \o "\": invalid syntax", val |-> 0]
        ELSE [err |-> "",
              val |-> IF signed /\ Char(s, 1) = "-"
                      THEN 0 - DecVal(body) ELSE DecVal(body)]

\* bytes.Split(s, sep) for a one-character separator: n separators give
\* n + 1 parts, empty parts included.
RECURSIVE Split(_, _)
Split(s, sep) ==
    IF \A i \in 1..Len(s) : Char(s, i) # sep THEN <<s>>
    ELSE LET k == CHOOSE i \in 1..Len(s) :
                      Char(s, i) = sep /\ \A j \in 1..(i - 1) : Char(s, j) # sep
         IN  <<SubSeq(s, 1, k - 1)>> \o Split(SubSeq(s, k + 1, Len(s)), sep)

parseScheduledTime(scheduledTime) ==
    LET parts == Split(scheduledTime, ":")
    IN  IF Len(parts) # 2
        THEN [hour |-> 0, minute |-> 0, err |-> "time must be in HH:MM format"]
        ELSE LET h == Atoi(parts[1])
                 m == Atoi(parts[2])
             IN  IF h.err # ""
                 THEN [hour |-> h.val, minute |-> 0, err |-> h.err]
                 ELSE [hour |-> h.val, minute |-> m.val, err |-> m.err]

\* parseScheduledTime without the early return on the hour's error: the
\* minute's Atoi overwrites err.
parseScheduledTimeIgnoresHourError(scheduledTime) ==
    LET parts == Split(scheduledTime, ":")
    IN  IF Len(parts) # 2
        THEN [hour |-> 0, minute |-> 0, err |-> "time must be in HH:MM format"]
        ELSE [hour |-> Atoi(parts[1]).val, minute |-> Atoi(parts[2]).val,
              err |-> Atoi(parts[2]).err]

\* parseScheduledTime(config.ScheduledTime) as main calls it.
CallParseScheduledTime(scheduledTime) == parseScheduledTime(scheduledTime)

\* cron.AddFunc with the spec "minute hour * * *": the standard parser takes
\* a minute in 0..59 and an hour in 0..23 and rejects anything else.
CronSpecOK(h, m) == h \in 0..23 /\ m \in 0..59

(***************************************************************************)
(* HTTP responses and JSON bodies.  A JSON object is a set of <<key, value>>*)
(* pairs; a body that is not JSON at all is JInvalid.                      *)
(***************************************************************************)
JNull == [t |-> "null"]
JInvalid == [t |-> "invalid"]
JStr(s) == [t |-> "str", s |-> s]
JNum(n) == [t |-> "num", n |-> n]
JArr(a) == [t |-> "arr", a |-> a]
JObj(o) == [t |-> "obj", o |-> o]

StatusOK == 200

TransportError(e) == [kind |-> "transport", err |-> e, status |-> 0, body |-> JNull]
HTTPResponse(status, body) == [kind |-> "http", err |-> "", status |-> status, body |-> body]

\* json.NewDecoder(body).Decode(&result) with result a map[string]interface{}:
\* an object fills the map, null leaves it nil, anything else is an error.
DecodeMap(body) ==
    CASE body.t = "obj"     -> [err |-> "", map |-> body.o]
      [] body.t = "null"    -> [err |-> "", map |-> {}]
      [] body.t = "invalid" -> [err |-> "invalid character", map |-> {}]
      [] OTHER              -> [err |-> "json: cannot unmarshal " \o body.t, map |-> {}]

\* m[key]: the value, or nil when the key is absent.
Lookup(m, key) ==
    IF \E p \in m : p[1] = key THEN (CHOOSE p \in m : p[1] = key)[2] ELSE JNull

\* fmt's %v of an interface{} decoded from JSON.
FmtV(v) ==
    CASE v.t = "str"  -> v.s
      [] v.t = "null" -> "<nil>"
      [] v.t = "num"  -> ToString(v.n)
      [] v.t = "arr"  -> "[...]"
      [] OTHER        -> "map[...]"

(***************************************************************************)
(* extractCSRFToken, which signFollow calls and no file of src/ defines:   *)
(* after the specification's CredentialExtractor, the value of the         *)
(* anti-forgery field of a "key=value; key=value" string.  The call takes  *)
(* one string and no error, so an absent field gives the empty string.     *)
(***************************************************************************)
CSRFField == "csrfToken"

RECURSIVE TrimLeft(_)
TrimLeft(s) == IF s # "" /\ Char(s, 1) = " " THEN TrimLeft(Tail(s)) ELSE s

\* The key=value parts of a credential string.
CookieParts(cookie) ==
    LET parts == Split(cookie, ";")
    IN  {TrimLeft(parts[i]) : i \in 1..Len(parts)}

extractCSRFToken(cookie) ==
    LET key  == CSRFField \o "="
        hits == {q \in CookieParts(cookie) :
                    Len(q) >= Len(key) /\ SubSeq(q, 1, Len(key)) = key}
    IN  IF hits = {} THEN ""
        ELSE LET q == CHOOSE h \in hits : TRUE
             IN  SubSeq(q, Len(key) + 1, Len(q))

(***************************************************************************)
(* Client.signFollow: what it returns and what it hands to sendToBark,     *)
(* given the answer to the claim request.  bark = <<>> is no call.         *)
(***************************************************************************)
signFollow(resp) ==
    IF resp.kind = "transport"
    THEN [msg |-> "", err |-> "failed to send claim request: " \o resp.err,
          bark |-> <<"Follow: Error: " \o resp.err>>]
    ELSE IF resp.status # StatusOK
    THEN LET d == DecodeMap(resp.body)
         IN  IF d.err # ""
             THEN [msg |-> "",
                   err |-> "claim failed with status " \o ToString(resp.status)
                               \o " and error: " \o d.err,
                   bark |-> <<>>]
             ELSE LET message == "Claim Points Failed: " \o FmtV(Lookup(d.map, "message"))
                  IN  [msg |-> "", err |-> message, bark |-> <<message>>]
    ELSE [msg |-> "Claim Points Success", err |-> "", bark |-> <<"Claim Points Success">>]

\* signFollow without the sendToBark call of the remote-error branch.
signFollowNoPushOnRemoteError(resp) ==
    IF resp.kind = "http" /\ resp.status # StatusOK
    THEN [signFollow(resp) EXCEPT !.bark = <<>>]
    ELSE signFollow(resp)

\* signFollow without the sendToBark call of the transport-error branch.
signFollowNoPushOnTransport(resp) ==
    IF resp.kind = "transport"
    THEN [signFollow(resp) EXCEPT !.bark = <<>>]
    ELSE signFollow(resp)

\* signFollow testing the status against the whole 2xx range.
signFollowAny2xx(resp) ==
    IF resp.kind = "http" /\ resp.status \in 200..299
    THEN signFollow([resp EXCEPT !.status = StatusOK])
    ELSE signFollow(resp)

\* signFollow without the sendToBark call of the success branch.
signFollowNoPushOnSuccess(resp) ==
    IF resp.kind = "http" /\ resp.status = StatusOK
    THEN [signFollow(resp) EXCEPT !.bark = <<>>]
    ELSE signFollow(resp)

\* client.signFollow() as the task closure calls it.
CallSignFollow(resp) == signFollow(resp)

(***************************************************************************)
(* Client.getCoinBalance.                                                  *)
(***************************************************************************)
\* Decimal numerals as tuples of digits, most significant first: the numbers
\* of this section exceed the machine integers of the checker.
\* (Tail(<<0>> \o f) is f written out as a tuple.)
ToDigits(s) == Tail(<<0>> \o [i \in 1..Len(s) |-> DigitVal(Char(s, i))])

RECURSIVE FromDigits(_)
FromDigits(d) == IF Len(d) = 0 THEN "" ELSE Digits[Head(d) + 1] \o FromDigits(Tail(d))

RECURSIVE Zeros(_)
Zeros(n) == IF n <= 0 THEN <<>> ELSE <<0>> \o Zeros(n - 1)

RECURSIVE Trim(_)
Trim(d) == IF Len(d) > 1 /\ Head(d) = 0 THEN Trim(Tail(d)) ELSE d

IsZero(d) == \A i \in 1..Len(d) : d[i] = 0
IsOdd(d) == d[Len(d)] % 2 = 1

\* a < b, for numerals without leading zeros.
Less(a, b) ==
    \/ Len(a) < Len(b)
    \/ /\ Len(a) = Len(b)
       /\ \E i \in 1..Len(a) : a[i] < b[i] /\ \A j \in 1..(i - 1) : a[j] = b[j]

Double(d) ==
    LET carry(i) == IF i < Len(d) /\ d[i + 1] >= 5 THEN 1 ELSE 0
        low == [i \in 1..Len(d) |-> (2 * d[i] + carry(i)) % 10]
    IN  Trim(<<IF d[1] >= 5 THEN 1 ELSE 0>> \o low)

\* d divided by two, the remainder dropped.
Halve(d) ==
    Trim(<<0>> \o [i \in 1..Len(d) |->
                     ((IF i > 1 THEN 10 * (d[i - 1] % 2) ELSE 0) + d[i]) \div 2])

RECURSIVE Succ(_)
Succ(d) ==
    IF Len(d) = 0 THEN <<1>>
    ELSE IF d[Len(d)] = 9 THEN Succ(SubSeq(d, 1, Len(d) - 1)) \o <<0>>
    ELSE [d EXCEPT ![Len(d)] = @ + 1]

\* d doubled k times.
RECURSIVE TimesPow2(_, _)
TimesPow2(d, k) == IF k = 0 \/ IsZero(d) THEN d ELSE TimesPow2(Double(d), k - 1)

\* The bits of a float64 significand (the bit size handed to ParseFloat).
MantissaBits == 53

Two52 == TimesPow2(<<1>>, MantissaBits - 1)
Two53 == TimesPow2(<<1>>, MantissaBits)

\* floor(T / 10^f), and the f digits it leaves.
Quot(T, f) == IF Len(T) <= f THEN <<0>> ELSE SubSeq(T, 1, Len(T) - f)
Rem(T, f) ==
    LET Last(padded) == SubSeq(padded, Len(padded) - f + 1, Len(padded))
    IN  Last(Zeros(f - Len(T)) \o T)

\* One bit shifted out of st.q: half is the bit shifted out last, sticky
\* whether anything below it was set.
ShiftOne(st) ==
    [st EXCEPT !.q = Halve(st.q), !.half = IsOdd(st.q), !.sticky = st.sticky \/ st.half]

\* j bits shifted out of st.q (nothing changes once all of st is zero).
RECURSIVE ShiftBy(_, _)
ShiftBy(st, j) ==
    IF j = 0 \/ (IsZero(st.q) /\ ~st.half /\ ~st.sticky) THEN st
    ELSE ShiftBy(ShiftOne(st), j - 1)

\* st.T doubled until floor(st.T / 10^f) has MantissaBits bits; st.k counts
\* the doublings.
RECURSIVE ScaleUp(_, _)
ScaleUp(st, f) ==
    IF ~Less(Quot(st.T, f), Two52) THEN st
    ELSE ScaleUp([T |-> Double(st.T), k |-> st.k + 1], f)

\* st.q halved until it has MantissaBits bits; st.j counts the halvings.
RECURSIVE ShiftDown(_)
ShiftDown(st) ==
    IF Less(st.q, Two53) THEN st
    ELSE ShiftDown([ShiftOne(st) EXCEPT !.j = @ + 1])

\* Round to nearest, ties to even.
RoundEven(q, half, sticky) == IF half /\ (sticky \/ IsOdd(q)) THEN Succ(q) ELSE q

\* The float64 nearest to T / 10^f, as m * 2^e (IEEE 754 round to nearest
\* even; the exponent range is not reached by the values of this model).
NearestFloat64(T, f) ==
    LET Rounded(q, half, sticky, e) == [m |-> RoundEven(q, half, sticky), e |-> e]
        Shifted(sd) == Rounded(sd.q, sd.half, sd.sticky, sd.j)
        Divided(q, r, k) ==
            IF Less(q, Two53)
            THEN Rounded(q, f > 0 /\ r[1] >= 5,
                         f > 0 /\ (r[1] > 5 \/ \E i \in 2..f : r[i] # 0), 0 - k)
            ELSE Shifted(ShiftDown([q |-> q, j |-> 0, half |-> FALSE,
                                    sticky |-> ~IsZero(r)]))
        Scaled(up) == Divided(Quot(up.T, f), Rem(up.T, f), up.k)
    IN  IF IsZero(T) THEN [m |-> <<0>>, e |-> 0]
        ELSE Scaled(ScaleUp([T |-> T, k |-> 0], f))

\* strings.ToLower on the letters of "infinity", "nan" and the exponent mark.
RECURSIVE ToLower(_)
ToLower(s) ==
    IF s = "" THEN ""
    ELSE LET c == Char(s, 1)
             l == CASE c = "I" -> "i" [] c = "N" -> "n" [] c = "F" -> "f"
                    [] c = "T" -> "t" [] c = "Y" -> "y" [] c = "A" -> "a"
                    [] c = "E" -> "e" [] OTHER -> c
         IN  l \o ToLower(Tail(s))

SyntaxError(s) ==
    [err |-> "strconv.ParseFloat: parsing \"" \o s \o "\": invalid syntax",
     kind |-> "none", neg |-> FALSE, m |-> <<0>>, e |-> 0]

\* strconv.ParseFloat(s, 64) on the decimal syntax: the names inf, infinity
\* and nan in any case (nan unsigned), or an optional sign, digits with at
\* most one point and at least one digit, and an optional exponent of an
\* optional sign and at least one digit.  The value is the nearest float64.
\* (Hexadecimal numerals, which need a 0x prefix and a p exponent, and
\* exponents beyond the float64 range are outside what the model reads.)
ParseFloat(s) ==
    LET signed == s # "" /\ Char(s, 1) \in {"+", "-"}
        neg    == signed /\ Char(s, 1) = "-"
        Finite(x) == [err |-> "", kind |-> "finite", neg |-> neg, m |-> x.m, e |-> x.e]
        Value(T, scale) ==
            IF scale >= 0 THEN NearestFloat64(Trim(T \o Zeros(scale)), 0)
            ELSE NearestFloat64(T, 0 - scale)
        Number(digits, scale) ==
            IF digits = "" \/ \E i \in 1..Len(digits) : ~IsDigit(Char(digits, i))
            THEN SyntaxError(s)
            ELSE Finite(Value(Trim(ToDigits(digits)), scale))
        Pointed(mant, points, marked, ex) ==
            LET point == IF points = {} THEN Len(mant) + 1 ELSE CHOOSE i \in points : TRUE
                frac  == Len(mant) - point
            IN  IF Cardinality(points) > 1 \/ (marked /\ ex.err # "")
                THEN SyntaxError(s)
                ELSE Number(SubSeq(mant, 1, point - 1) \o SubSeq(mant, point + 1, Len(mant)),
                            (IF marked THEN ex.val ELSE 0) - (IF frac > 0 THEN frac ELSE 0))
        Mantissa(mant, marked, ex) ==
            Pointed(mant, {i \in 1..Len(mant) : Char(mant, i) = "."}, marked, ex)
        Marked(body, marks) ==
            LET cut == IF marks = {} THEN Len(body) + 1
                       ELSE CHOOSE i \in marks : \A j \in marks : i <= j
            IN  Mantissa(SubSeq(body, 1, cut - 1), marks # {},
                         Atoi(SubSeq(body, cut + 1, Len(body))))
        Named(body) ==
            IF body \in {"inf", "infinity"}
            THEN [err |-> "", kind |-> "inf", neg |-> neg, m |-> <<0>>, e |-> 0]
            ELSE IF body = "nan" /\ ~signed
            THEN [err |-> "", kind |-> "nan", neg |-> FALSE, m |-> <<0>>, e |-> 0]
            ELSE Marked(body, {i \in 1..Len(body) : Char(body, i) = "e"})
    IN  Named(ToLower(IF signed THEN Tail(s) ELSE s))

\* The power of ten dailyPowerToken is divided by, and the digits %f prints.
ScaleDigits == 18
FracDigits == 6

\* dailyPowerToken /= 1e18: the float64 quotient, rounded once more.
DivideBy1e18(x) ==
    IF x.kind # "finite" THEN x
    ELSE LET Quotient(y) == [x EXCEPT !.m = y.m, !.e = y.e + x.e]
         IN  Quotient(NearestFloat64(x.m, ScaleDigits))

\* fmt.Sprintf("%f", x): the exact value of the float64 rounded to six
\* decimals, ties to even.
Sprintf(x) ==
    LET Rounded(sd) == RoundEven(sd.q, sd.half, sd.sticky)
        Scaled(d) ==
            IF x.e >= 0 THEN TimesPow2(d, x.e)
            ELSE Rounded(ShiftBy([q |-> d, half |-> FALSE, sticky |-> FALSE], 0 - x.e))
        Pointed(padded, cut) ==
            (IF x.neg THEN "-" ELSE "") \o FromDigits(SubSeq(padded, 1, cut))
                \o "." \o FromDigits(SubSeq(padded, cut + 1, Len(padded)))
        Padded(padded) == Pointed(padded, Len(padded) - FracDigits)
        Fixed(z) == Padded(Zeros(FracDigits + 1 - Len(z)) \o z)
    IN  CASE x.kind = "nan" -> "NaN"
          [] x.kind = "inf" -> IF x.neg THEN "-Inf" ELSE "+Inf"
          [] OTHER -> Fixed(Scaled(Trim(x.m \o Zeros(FracDigits))))

\* The balance getCoinBalance returns for a dailyPowerToken that parsed.
FormatBalance(x) == Sprintf(DivideBy1e18(x))

\* The strings of dailyPowerToken the wallet answers of this model carry:
\* the one of the daily runs, strings ParseFloat refuses, the spellings it
\* takes besides plain digits, and integers n around the places where
\* n / 10^18 changes its sixth decimal.
DailyToken == "1230000000000000000"

OddTokens ==
    { "", "abc", "12x", "1.2.3", "--1", "1e", "0x10", "+nan",
      "nan", "NaN", "inf", "-Inf", "Infinity",
      "1.5", "-2", "1e18", "+7e17", "00123000000000000000" }

TokenHeads == {"1", "42", "1230000", "1234567", "999999", "7000001"}
TokenTails ==
    { "000000000000", "499999999900", "499999999999", "500000000000",
      "500000000001", "999999999999" }

IntegerTokens ==
    {"0", "1", "999", "500000000000", "2500000000000", "3500000000000"}
        \cup {h \o t : h \in TokenHeads, t \in TokenTails}

TokenStrings == {DailyToken} \cup OddTokens \cup IntegerTokens

\* Lines 240-248 of getCoinBalance, from the string of dailyPowerToken on.
ConvertToken(s) ==
    LET Converted(dailyPowerToken) ==
            IF dailyPowerToken.err # ""
            THEN [val |-> "",
                  err |-> "failed to parse dailyPowerToken: " \o dailyPowerToken.err]
            ELSE [val |-> FormatBalance(dailyPowerToken), err |-> ""]
    IN  Converted(ParseFloat(s))

\* ConvertToken on TokenStrings, evaluated once.
TokenTable == {<<s, ConvertToken(s)>> : s \in TokenStrings}

TokenBalance(s) ==
    IF s \in TokenStrings THEN (CHOOSE p \in TokenTable : p[1] = s)[2]
    ELSE ConvertToken(s)

getCoinBalance(resp) ==
    IF resp.kind = "transport"
    THEN [val |-> "", err |-> "failed to send wallet request: " \o resp.err]
    ELSE LET d == DecodeMap(resp.body)
         IN
         IF resp.status # StatusOK
         THEN IF d.err # ""
              THEN [val |-> "", err |-> "failed to decode wallet error response: " \o d.err]
              ELSE [val |-> "",
                    err |-> "failed to get wallet data: " \o FmtV(Lookup(d.map, "message"))]
         ELSE IF d.err # ""
         THEN [val |-> "", err |-> "error decoding wallet response: " \o d.err]
         ELSE LET data == Lookup(d.map, "data")
              IN
              IF data.t # "arr" \/ (data.t = "arr" /\ Len(data.a) = 0)
              THEN [val |-> "", err |-> "no wallet data found"]
              ELSE LET wallet == data.a[1]
                   IN
                   IF wallet.t # "obj"
                   THEN [val |-> "", err |-> "invalid wallet data format"]
                   ELSE LET token == Lookup(wallet.o, "dailyPowerToken")
                        IN
                        IF token.t # "str"
                        THEN [val |-> "", err |-> "dailyPowerToken not found or invalid"]
                        ELSE TokenBalance(token.s)

(***************************************************************************)
(* The environment the process is started in.                              *)
(***************************************************************************)
DefaultScheduledTime == "00:05"

\* The session credential of the valid environments, and one without the
\* anti-forgery field.
SessionCookie == "sid=1; csrfToken=abc"
BareCookie == "sid=1"

ScheduledTimes == {"", "7:30", "25:99", "1:2:3", "a:5"}

OffsetStrings == {"", "8", "x"}

\* The environments explored: every mix of the entries main validates, with
\* both sinks set, every mix of the sink entries under a valid start, and a
\* valid start with a credential that lacks the anti-forgery field.
StartupEnvironments ==
    [ COOKIE           : {"", SessionCookie},
      USER_ID          : {"", "42"},
      BARK_URL         : {"https://bark"},
      TELEGRAM_TOKEN   : {"token"},
      TELEGRAM_CHAT_ID : {"chat"},
      SCHEDULED_TIME   : ScheduledTimes,
      TIMEZONE_OFFSET  : OffsetStrings,
      \* an entry no statement of main reads
      RUN_IMMEDIATELY  : {"", "true"} ]

SinkEnvironments ==
    [ COOKIE           : {SessionCookie},
      USER_ID          : {"42"},
      BARK_URL         : {"", "https://bark"},
      TELEGRAM_TOKEN   : {"", "token"},
      TELEGRAM_CHAT_ID : {"", "chat"},
      SCHEDULED_TIME   : {"7:30"},
      TIMEZONE_OFFSET  : {"8"},
      RUN_IMMEDIATELY  : {""} ]

CredentialEnvironments ==
    [ COOKIE           : {BareCookie},
      USER_ID          : {"42"},
      BARK_URL         : {"https://bark"},
      TELEGRAM_TOKEN   : {"token"},
      TELEGRAM_CHAT_ID : {"chat"},
      SCHEDULED_TIME   : {"7:30"},
      TIMEZONE_OFFSET  : {"8"},
      RUN_IMMEDIATELY  : {""} ]

Environments == StartupEnvironments \cup SinkEnvironments \cup CredentialEnvironments

NoConfig ==
    [ Cookie |-> "", UserID |-> "", BarkURL |-> "", TelegramToken |-> "",
      TelegramChatID |-> "", ScheduledTime |-> "", TimeZoneOffset |-> 0 ]

NoResp == [kind |-> "none", err |-> "", status |-> 0, body |-> JNull]

NoRet == [msg |-> "", err |-> "", bark |-> <<>>]

NewRun(id) ==
    [ id |-> id, pc |-> "claim", age |-> 0, csrfToken |-> "",
      claimResp |-> NoResp, ret |-> NoRet, barkCalls |-> <<>>, barkSent |-> <<>>,
      signFollowDone |-> FALSE, claimResult |-> "",
      balResp |-> NoResp, balanceDone |-> FALSE, balance |-> "",
      logMessage |-> <<>>, tgSent |-> <<>>,
      log |-> <<"Starting scheduled task...">> ]

\* signFollow up to its request: the payload carries the token extracted
\* from the credential.
ClaimRequest(id) == [NewRun(id) EXCEPT !.csrfToken = extractCSRFToken(config.Cookie)]

\* No run: the value of last before a run of the current day has completed.
NoRun == [NewRun(0) EXCEPT !.pc = "none"]

\* A valid environment, and the result slot of SpecParse before the call.
BaseEnvironment ==
    [ COOKIE |-> SessionCookie, USER_ID |-> "42", BARK_URL |-> "https://bark",
      TELEGRAM_TOKEN |-> "token", TELEGRAM_CHAT_ID |-> "chat",
      SCHEDULED_TIME |-> "7:30", TIMEZONE_OFFSET |-> "8", RUN_IMMEDIATELY |-> "" ]

NotParsed == [hour |-> 0, minute |-> 0, err |-> "not called"]

Init ==
    /\ env \in Environments
    /\ pc = "init"
    /\ config = NoConfig
    /\ hour = 0
    /\ minute = 0
    /\ entries = 0
    /\ armed = FALSE
    /\ exitCode = 0
    /\ mainLog = <<>>
    /\ clock = 0
    /\ fired = 0
    /\ runs = <<>>
    /\ last = NoRun
    /\ completed = 0
    /\ reports = <<>>
    /\ requests = 0
    /\ arg = ""
    /\ parsed = NotParsed

\* log.Fatal / log.Fatalf: the line is logged and the process exits with 1.
Fatal(line) ==
    /\ mainLog' = Append(mainLog, line)
    /\ pc' = "exited"
    /\ exitCode' = 1

(***************************************************************************)
(* main, up to the blocking select.                                        *)
(***************************************************************************)
\* The Config literal, with the TimeZoneOffset initializer.
LoadConfig ==
    /\ pc = "init"
    /\ LET offsetStr == env.TIMEZONE_OFFSET
           noted     == IF offsetStr = ""
                        THEN <<"TIMEZONE_OFFSET is not set, defaulting to 8">>
                        ELSE <<>>
           offset    == Atoi(offsetStr)
       IN  IF offset.err # ""
           THEN /\ mainLog' = mainLog \o noted \o <<"Invalid TIMEZONE_OFFSET: " \o offset.err>>
                /\ pc' = "exited"
                /\ exitCode' = 1
                /\ UNCHANGED config
           ELSE /\ mainLog' = mainLog \o noted
                /\ pc' = "validate"
                /\ config' = [ Cookie         |-> env.COOKIE,
                               UserID         |-> env.USER_ID,
                               BarkURL        |-> env.BARK_URL,
                               TelegramToken  |-> env.TELEGRAM_TOKEN,
                               TelegramChatID |-> env.TELEGRAM_CHAT_ID,
                               ScheduledTime  |-> env.SCHEDULED_TIME,
                               TimeZoneOffset |-> offset.val ]
                /\ UNCHANGED exitCode
    /\ UNCHANGED <<env, hour, minute, entries, armed, clock, fired, runs, last,
                   completed, reports, requests, arg, parsed>>

\* The checks of COOKIE and USER_ID and the default of SCHEDULED_TIME.
ValidateConfig ==
    /\ pc = "validate"
    /\ IF config.Cookie = ""
       THEN Fatal("COOKIE must be set in environment variables") /\ UNCHANGED config
       ELSE IF config.UserID = ""
       THEN Fatal("USER_ID must be set in environment variables") /\ UNCHANGED config
       ELSE /\ config' = [config EXCEPT !.ScheduledTime =
                              IF @ = "" THEN DefaultScheduledTime ELSE @]
            /\ pc' = "parse"
            /\ UNCHANGED <<mainLog, exitCode>>
    /\ UNCHANGED <<env, hour, minute, entries, armed, clock, fired, runs, last,
                   completed, reports, requests, arg, parsed>>

ParseTime ==
    /\ pc = "parse"
    /\ LET r == CallParseScheduledTime(config.ScheduledTime)
       IN  IF r.err # ""
           THEN Fatal("Invalid SCHEDULED_TIME format") /\ UNCHANGED <<hour, minute>>
           ELSE /\ hour' = r.hour
                /\ minute' = r.minute
                /\ pc' = "schedule"
                /\ UNCHANGED <<mainLog, exitCode>>
    /\ UNCHANGED <<env, config, entries, armed, clock, fired, runs, last,
                   completed, reports, requests, arg, parsed>>

\* cron.New and AddFunc: the task is registered unless the spec is rejected.
AddFunc ==
    /\ pc = "schedule"
    /\ IF CronSpecOK(hour, minute)
       THEN /\ entries' = entries + 1
            /\ pc' = "start"
            /\ UNCHANGED <<mainLog, exitCode>>
       ELSE Fatal("Error scheduling task") /\ UNCHANGED entries
    /\ UNCHANGED <<env, config, hour, minute, armed, clock, fired, runs, last,
                   completed, reports, requests, arg, parsed>>

(***************************************************************************)
(* The answers the remote services can give.                               *)
(***************************************************************************)
ClaimResponses ==
    { TransportError("context deadline exceeded"),
      HTTPResponse(200, JObj({})),
      HTTPResponse(201, JObj({})),
      HTTPResponse(400, JObj({<<"message", JStr("already claimed")>>})),
      HTTPResponse(500, JInvalid) }

BalanceResponses ==
    { TransportError("context deadline exceeded"),
      HTTPResponse(200, JObj({<<"data",
          JArr(<<JObj({<<"dailyPowerToken", JStr(DailyToken)>>})>>)>>})),
      HTTPResponse(200, JObj({<<"data", JArr(<<>>)>>})),
      HTTPResponse(500, JObj({<<"message", JStr("internal error")>>})) }

SinkResponses ==
    { TransportError("connection refused"),
      HTTPResponse(200, JObj({})),
      HTTPResponse(500, JInvalid) }

(***************************************************************************)
(* One execution of the task closure.  A run waits at the HTTP request its *)
(* pc names; each action below is the code from one answer to the next     *)
(* request.                                                                *)
(***************************************************************************)
\* fmt.Sprintf("%+d", n)
SignedStr(n) == IF n >= 0 THEN "+" \o ToString(n) ELSE ToString(n)

\* time.Now() in the zone of the configured offset, and the offset's suffix.
\* The instant is the firing's day, hour and minute; \div rounds down.
currentDate(r) ==
    LET total == hour + config.TimeZoneOffset
    IN  "day " \o ToString(r.id + (total \div 24)) \o " "
            \o ToString(total % 24) \o ":" \o ToString(minute)
            \o " UTC" \o SignedStr(config.TimeZoneOffset)

\* fmt.Sprintf("\n%s\nCoin Balance: %s\n\nDate: %s", ...), piece by piece.
FormatLogMessage(claimResult, balance, date) ==
    <<"\n", claimResult, "\nCoin Balance: ", balance, "\n\nDate: ", date>>

\* AfterSignFollow without the assignment claimResult = err.Error().
AfterSignFollowDropsError(r, sf) ==
    [ r EXCEPT !.pc = "balance", !.age = 0, !.signFollowDone = TRUE,
               !.claimResult = sf.msg,
               !.log = IF sf.err # "" THEN Append(@, "signFollow error: " \o sf.err)
                       ELSE @ ]

HasPrefix(s, p) == Len(s) >= Len(p) /\ SubSeq(s, 1, Len(p)) = p

\* The lines sendToBark logs when its request fails or is refused.
BarkFailed(r) ==
    \E i \in 1..Len(r.log) :
        \/ HasPrefix(r.log[i], "Failed to send Bark notification")
        \/ HasPrefix(r.log[i], "Bark API returned status")

\* AfterSignFollow with a failure of sendToBark taken for the claim's.
AfterSignFollowBarkError(r, sf) ==
    [ r EXCEPT !.pc = "balance", !.age = 0, !.signFollowDone = TRUE,
               !.claimResult = IF BarkFailed(r) THEN "push notification failed"
                               ELSE IF sf.err # "" THEN sf.err ELSE sf.msg,
               !.log = IF sf.err # "" THEN Append(@, "signFollow error: " \o sf.err)
                       ELSE @ ]

\* AfterSignFollow with the chat message sent as soon as signFollow returns.
AfterSignFollowChatFirst(r, sf) ==
    [ r EXCEPT !.pc = "balance", !.age = 0, !.signFollowDone = TRUE,
               !.claimResult = IF sf.err # "" THEN sf.err ELSE sf.msg,
               !.tgSent = <<<<"*Follow Claim*", "\n", sf.msg>>>>,
               !.log = IF sf.err # "" THEN Append(@, "signFollow error: " \o sf.err)
                       ELSE @ ]

\* AfterSignFollow with claimResult shared by the runs and written only by
\* the first of them.
AfterSignFollowKeepsFirst(r, sf) ==
    [ r EXCEPT !.pc = "balance", !.age = 0, !.signFollowDone = TRUE,
               !.claimResult = IF reports # <<>> THEN reports[1]
                               ELSE IF sf.err # "" THEN sf.err ELSE sf.msg,
               !.log = IF sf.err # "" THEN Append(@, "signFollow error: " \o sf.err)
                       ELSE @ ]

\* The closure from the return of signFollow to the wallet request, with
\* err.Error() for the claim result of a failed claim.
AfterSignFollow(r, sf) ==
    [ r EXCEPT !.pc = "balance", !.age = 0, !.signFollowDone = TRUE,
               !.claimResult = IF sf.err # "" THEN sf.err ELSE sf.msg,
               !.log = IF sf.err # "" THEN Append(@, "signFollow error: " \o sf.err)
                       ELSE @ ]

\* AfterGetCoinBalance writing the wallet error into claimResult as well.
AfterGetCoinBalanceClobbers(r, resp) ==
    LET b       == getCoinBalance(resp)
        balance == IF b.err # "" THEN b.err ELSE b.val
        claim   == IF b.err # "" THEN b.err ELSE r.claimResult
    IN  [ r EXCEPT !.balResp = resp, !.balanceDone = TRUE,
                   !.claimResult = claim, !.balance = balance,
                   !.log = IF b.err # ""
                           THEN Append(@, "getCoinBalance error: " \o b.err)
                           ELSE @,
                   !.logMessage = FormatLogMessage(claim, balance, currentDate(r)) ]

\* The closure from the return of getCoinBalance to the report.
AfterGetCoinBalance(r, resp) ==
    LET b       == getCoinBalance(resp)
        balance == IF b.err # "" THEN b.err ELSE b.val
    IN  [ r EXCEPT !.balResp = resp, !.balanceDone = TRUE,
                   !.balance = balance,
                   !.log = IF b.err # ""
                           THEN Append(@, "getCoinBalance error: " \o b.err)
                           ELSE @,
                   !.logMessage =
                       FormatLogMessage(r.claimResult, balance, currentDate(r)) ]

\* log.Fatalf in the place of log.Printf.
LogFatalf ==
    /\ pc' = "exited"
    /\ exitCode' = 1

\* log.Printf in the closure and in the sinks: the line is written and the
\* caller goes on.
LogPrintf == UNCHANGED <<pc, exitCode>>

\* The closure's last line: the run is over.  last keeps the record of the
\* run completed since the latest firing, reports the claim line of every
\* report logged so far.
Complete(i, r) ==
    /\ last' = [r EXCEPT !.pc = "done", !.age = 0,
                         !.log = Append(@, "Scheduled task completed.")]
    /\ runs' = SubSeq(runs, 1, i - 1) \o SubSeq(runs, i + 1, Len(runs))
    /\ completed' = completed + 1
    /\ reports' = Append(reports, r.logMessage[2])

\* Start with one run of the task before the trigger when RUN_IMMEDIATELY is
\* set.
StartRunsImmediately ==
    /\ pc = "start"
    /\ armed' = TRUE
    /\ pc' = "blocked"
    /\ mainLog' = Append(mainLog, "Scheduler started.")
    /\ clock' \in 0..(DayTicks - 1)
    /\ runs' = IF env.RUN_IMMEDIATELY # "" THEN <<ClaimRequest(0)>> ELSE runs
    /\ requests' = IF env.RUN_IMMEDIATELY # "" THEN requests + 1 ELSE requests
    /\ UNCHANGED <<env, config, hour, minute, entries, exitCode, fired,
                   last, completed, reports, arg, parsed>>

\* c.Start(), the log line, and the select that blocks for ever.  The clock
\* counts the ticks since the last HH:MM instant of the UTC day.
Start ==
    /\ pc = "start"
    /\ armed' = TRUE
    /\ pc' = "blocked"
    /\ mainLog' = Append(mainLog, "Scheduler started.")
    /\ clock' \in 0..(DayTicks - 1)
    /\ UNCHANGED <<env, config, hour, minute, entries, exitCode, fired, runs,
                   last, completed, reports, requests, arg, parsed>>

\* A trigger that fires at any tick of the clock, not only at HH:MM.
FireOnAnyTick ==
    /\ pc = "blocked"
    /\ armed
    /\ entries > 0
    /\ clock >= 1
    /\ fired < MaxRuns
    /\ clock' = 0
    /\ fired' = fired + 1
    /\ runs' = Append(runs, ClaimRequest(fired + 1))
    /\ requests' = requests + 1
    /\ last' = NoRun
    /\ UNCHANGED <<env, pc, config, hour, minute, entries, armed, exitCode,
                   mainLog, completed, reports, arg, parsed>>

\* The cron trigger: every firing starts the closure in a goroutine of its
\* own, which logs and sends the claim request.
Fire ==
    /\ pc = "blocked"
    /\ armed
    /\ entries > 0
    /\ clock = DayTicks
    /\ fired < MaxRuns
    /\ clock' = 0
    /\ fired' = fired + 1
    /\ runs' = Append(runs, ClaimRequest(fired + 1))
    /\ requests' = requests + 1
    /\ last' = NoRun
    /\ UNCHANGED <<env, pc, config, hour, minute, entries, armed, exitCode,
                   mainLog, completed, reports, arg, parsed>>

\* Time passes: no request waits longer than the client timeout.
Tick ==
    /\ pc = "blocked"
    /\ clock < DayTicks
    /\ \A i \in 1..Len(runs) : runs[i].age < TimeoutTicks
    /\ clock' = clock + 1
    /\ runs' = [i \in 1..Len(runs) |-> [runs[i] EXCEPT !.age = @ + 1]]
    /\ UNCHANGED <<env, pc, config, hour, minute, entries, armed, exitCode,
                   mainLog, fired, last, completed, reports, requests, arg, parsed>>

\* signFollow from the answer to the claim request: to the Bark request when
\* sendToBark posts one, else back in the closure up to the wallet request.
ClaimResponse ==
    \E i \in 1..Len(runs), resp \in ClaimResponses :
        LET r  == runs[i]
            sf == CallSignFollow(resp)
            r1 == [r EXCEPT !.claimResp = resp, !.ret = sf,
                            !.barkCalls = @ \o sf.bark]
        IN  /\ pc = "blocked"
            /\ r.pc = "claim"
            /\ IF sf.bark # <<>> /\ config.BarkURL # ""
               THEN /\ runs' = [runs EXCEPT ![i] =
                                   [r1 EXCEPT !.pc = "bark", !.age = 0,
                                              !.barkSent = @ \o sf.bark]]
                    /\ UNCHANGED <<pc, exitCode>>
               ELSE /\ runs' = [runs EXCEPT ![i] = AfterSignFollow(r1, sf)]
                    /\ IF sf.err # "" THEN LogPrintf ELSE UNCHANGED <<pc, exitCode>>
            /\ requests' = requests + 1
            /\ UNCHANGED <<env, config, hour, minute, entries, armed,
                           mainLog, clock, fired, last, completed, reports, arg, parsed>>

\* sendToBark from the answer to its request, then the return of signFollow.
BarkResponse ==
    \E i \in 1..Len(runs), resp \in SinkResponses :
        LET r  == runs[i]
            failed == resp.kind = "transport" \/ resp.status # StatusOK
            r1 == [r EXCEPT !.log =
                      IF resp.kind = "transport"
                      THEN Append(@, "Failed to send Bark notification: " \o resp.err)
                      ELSE IF resp.status # StatusOK
                      THEN Append(@, "Bark API returned status " \o ToString(resp.status))
                      ELSE @]
        IN  /\ pc = "blocked"
            /\ r.pc = "bark"
            /\ runs' = [runs EXCEPT ![i] = AfterSignFollow(r1, r.ret)]
            /\ IF failed \/ r.ret.err # "" THEN LogPrintf ELSE UNCHANGED <<pc, exitCode>>
            /\ requests' = requests + 1
            /\ UNCHANGED <<env, config, hour, minute, entries, armed,
                           mainLog, clock, fired, last, completed, reports, arg, parsed>>

\* The title line alone, the message left out.
TelegramTitleOnly(message) == <<"*Follow Claim*", "\n">>

\* sendToTelegram's text: the title line, then the message.
TelegramText(message) == <<"*Follow Claim*", "\n">> \o message

\* getCoinBalance from the answer to the wallet request, then the closure:
\* the report, and the Telegram request when token and chat id are set.
BalanceResponse ==
    \E i \in 1..Len(runs), resp \in BalanceResponses :
        LET r  == runs[i]
            r1 == AfterGetCoinBalance(r, resp)
        IN  /\ pc = "blocked"
            /\ r.pc = "balance"
            /\ IF getCoinBalance(resp).err # "" THEN LogPrintf
               ELSE UNCHANGED <<pc, exitCode>>
            /\ IF config.TelegramToken # "" /\ config.TelegramChatID # ""
               THEN /\ runs' = [runs EXCEPT ![i] =
                                   [r1 EXCEPT !.pc = "telegram", !.age = 0,
                                              !.tgSent = Append(@, TelegramText(r1.logMessage))]]
                    /\ requests' = requests + 1
                    /\ UNCHANGED <<last, completed, reports>>
               ELSE /\ Complete(i, r1)
                    /\ UNCHANGED requests
            /\ UNCHANGED <<env, config, hour, minute, entries, armed,
                           mainLog, clock, fired, arg, parsed>>

\* sendToTelegram from the answer to its request, then the end of the closure.
TelegramResponse ==
    \E i \in 1..Len(runs), resp \in SinkResponses :
        LET r  == runs[i]
            failed == resp.kind = "transport" \/ resp.status # StatusOK
            r1 == [r EXCEPT !.log =
                      IF resp.kind = "transport"
                      THEN Append(@, "Failed to send Telegram message: failed to send Telegram message: "
                                         \o resp.err)
                      ELSE IF resp.status # StatusOK
                      THEN Append(@, "Failed to send Telegram message: Telegram API returned status "
                                         \o ToString(resp.status))
                      ELSE Append(@, "Telegram message sent successfully.")]
        IN  /\ pc = "blocked"
            /\ r.pc = "telegram"
            /\ IF failed THEN LogPrintf ELSE UNCHANGED <<pc, exitCode>>
            /\ Complete(i, r1)
            /\ UNCHANGED <<env, config, hour, minute, entries, armed,
                           mainLog, clock, fired, requests, arg, parsed>>

Next ==
    \/ LoadConfig
    \/ ValidateConfig
    \/ ParseTime
    \/ AddFunc
    \/ Start
    \/ Fire
    \/ Tick
    \/ ClaimResponse
    \/ BarkResponse
    \/ BalanceResponse
    \/ TelegramResponse

Spec == Init /\ [][Next]_vars

\* Every HTTP request is answered, or fails, within the client timeout.
FairSpec ==
    /\ Spec
    /\ WF_vars(ClaimResponse)
    /\ WF_vars(BarkResponse)
    /\ WF_vars(BalanceResponse)
    /\ WF_vars(TelegramResponse)

(***************************************************************************)
(* Properties.                                                             *)
(***************************************************************************)
\* The runs in progress and the run completed since the latest firing.
AllRuns == {runs[i] : i \in 1..Len(runs)} \cup (IF last.pc = "none" THEN {} ELSE {last})

ClaimAnswered == {r \in AllRuns : r.claimResp.kind # "none"}

BalanceAnswered == {r \in AllRuns : r.balResp.kind # "none"}

\* The text the closure keeps of signFollow's return.
ClaimText(r) == IF r.ret.err # "" THEN r.ret.err ELSE r.ret.msg

ReportOf(r) ==
    /\ Len(r.logMessage) = 6
    /\ r.claimResp.kind = "transport" =>
           r.logMessage[2] = "failed to send claim request: " \o r.claimResp.err
    /\ (r.claimResp.kind = "http" /\ r.claimResp.status # StatusOK) =>
           (r.ret.err # "" /\ r.logMessage[2] = r.ret.err)
    /\ (r.claimResp.kind = "http" /\ r.claimResp.status = StatusOK) =>
           r.logMessage[2] = "Claim Points Success"
    /\ r.balResp.kind = "transport" =>
           r.logMessage[4] = "failed to send wallet request: " \o r.balResp.err
    /\ getCoinBalance(r.balResp).err # "" =>
           r.logMessage[4] = getCoinBalance(r.balResp).err
    /\ getCoinBalance(r.balResp).err = "" =>
           r.logMessage[4] = getCoinBalance(r.balResp).val

OneReportPerFiring ==
    /\ fired = completed + Len(runs)
    /\ \A r \in AllRuns :
           /\ r.pc \in {"claim", "bark", "balance"} => r.logMessage = <<>>
           /\ r.pc \in {"telegram", "done"} => ReportOf(r)

\* C1: every firing's run reaches its end whatever signFollow and
\* getCoinBalance return, and has produced exactly one report by then; a
\* failed call leaves its error text in its field of the report instead of
\* ending the run early.
C1_OneReportPerFiring ==
    /\ []OneReportPerFiring
    /\ \A k \in 1..MaxRuns : (fired >= k) ~> (completed >= k)

C1_Witness ==
    /\ last.pc = "done"
    /\ last.claimResp.kind = "transport"
    /\ last.balResp.kind = "transport"
    /\ last.logMessage[2] = "failed to send claim request: context deadline exceeded"
    /\ last.logMessage[4] = "failed to send wallet request: context deadline exceeded"

\* C2: the wallet request is made whatever signFollow returned, the answer
\* to it never changes the claim result, and the report holds both.
C2_BalanceIndependentOfClaim ==
    \A r \in AllRuns :
        /\ r.signFollowDone => (r.pc = "balance" \/ r.balanceDone)
        /\ r.signFollowDone => r.claimResult = ClaimText(r)
        /\ r.balanceDone =>
               /\ r.logMessage[2] = ClaimText(r)
               /\ r.logMessage[4] = r.balance
               /\ r.balance # ""

C2_Witness ==
    /\ last.pc = "done"
    /\ last.claimResp.status = 400
    /\ last.balResp.status = 500
    /\ last.logMessage[2] = "Claim Points Failed: already claimed"
    /\ last.logMessage[4] = "failed to get wallet data: internal error"

\* C3: once the scheduler is armed it stays armed and the process stays
\* alive whatever the runs' claim, balance, Bark and Telegram outcomes, and
\* the next daily firing can start a run.
C3_RunsNeverStopScheduler ==
    /\ [][armed => (armed' /\ pc' = "blocked" /\ exitCode' = 0 /\ entries' = entries)]_vars
    /\ [](armed /\ clock = DayTicks /\ fired < MaxRuns => ENABLED Fire)

C3_Witness ==
    /\ armed
    /\ pc = "blocked"
    /\ fired = 1
    /\ clock = DayTicks
    /\ last.pc = "done"
    /\ last.claimResp.kind = "transport"
    /\ last.balResp.kind = "transport"
    /\ \E j \in 1..Len(last.log) :
           last.log[j] = "Failed to send Bark notification: connection refused"
    /\ \E j \in 1..Len(last.log) :
           last.log[j] = "Failed to send Telegram message: failed to send Telegram message: connection refused"

\* A decimal integer, as an environment entry must spell it.
IsNumber(s) ==
    LET body == IF s # "" /\ Char(s, 1) \in {"+", "-"} THEN Tail(s) ELSE s
    IN  body # "" /\ \A i \in 1..Len(body) : IsDigit(Char(body, i))

Count(s, ch) == Cardinality({i \in 1..Len(s) : Char(s, i) = ch})

\* A trigger time main accepts: unset, or hour:minute within the day.
TimeOK(s) ==
    \/ s = ""
    \/ /\ Count(s, ":") = 1
       /\ \A k \in 1..2 : IsNumber(Split(s, ":")[k])
       /\ Atoi(Split(s, ":")[1]).val \in 0..23
       /\ Atoi(Split(s, ":")[2]).val \in 0..59

\* C4: with TIMEZONE_OFFSET unset and the other entries valid, startup does
\* not fail and the offset is 8.
C4_DefaultOffset ==
    (env.TIMEZONE_OFFSET = "" /\ env.COOKIE # "" /\ env.USER_ID # ""
        /\ TimeOK(env.SCHEDULED_TIME))
    => (pc # "exited" /\ (pc # "init" => config.TimeZoneOffset = 8))

RemoteErrorWithMessage(resp) ==
    /\ resp.kind = "http"
    /\ resp.status # StatusOK
    /\ resp.body.t = "obj"
    /\ Lookup(resp.body.o, "message").t = "str"

\* C5 as stated: on a non-success status with a decodable body whose message
\* is m, signFollow fails with "Claim Points Failed: m" and does not call
\* the push sink; only transport failures call it.
C5_NoPushOnRemoteError ==
    \A r \in ClaimAnswered :
        /\ RemoteErrorWithMessage(r.claimResp) =>
               /\ r.ret.err = "Claim Points Failed: " \o Lookup(r.claimResp.body.o, "message").s
               /\ r.barkCalls = <<>>
        /\ r.barkCalls # <<>> => r.claimResp.kind = "transport"

\* C5 amended: on a non-success status with a decodable body whose message
\* is m, signFollow fails with "Claim Points Failed: m" and calls the push
\* sink exactly once with that text; the sink posts nothing when the push
\* URL is unset.
C5_PushOnRemoteError ==
    \A r \in ClaimAnswered :
        RemoteErrorWithMessage(r.claimResp) =>
            LET text == "Claim Points Failed: " \o Lookup(r.claimResp.body.o, "message").s
            IN  /\ r.ret.err = text
                /\ r.ret.msg = ""
                /\ r.barkCalls = <<text>>
                /\ r.barkSent = IF config.BarkURL # "" THEN <<text>> ELSE <<>>

C5_Witness ==
    /\ last.pc = "done"
    /\ last.claimResp.status = 400
    /\ config.BarkURL # ""
    /\ last.barkSent = <<"Claim Points Failed: already claimed">>

\* C6: a transport failure of the claim request makes signFollow fail with
\* the transport error's text and, when the push URL is set, post exactly
\* one push carrying that error; a transport failure of the wallet request
\* fails getCoinBalance and adds no push.
C6_PushOnClaimTransportError ==
    /\ \A r \in ClaimAnswered :
           r.claimResp.kind = "transport" =>
               LET alert == "Follow: Error: " \o r.claimResp.err
               IN  /\ r.ret.err = "failed to send claim request: " \o r.claimResp.err
                   /\ r.ret.msg = ""
                   /\ r.barkCalls = <<alert>>
                   /\ r.barkSent = IF config.BarkURL # "" THEN <<alert>> ELSE <<>>
    /\ \A r \in BalanceAnswered :
           r.balResp.kind = "transport" =>
               /\ r.balance = "failed to send wallet request: " \o r.balResp.err
               /\ r.barkCalls = r.ret.bark
               /\ Len(r.barkSent) <= Len(r.ret.bark)

C6_Witness ==
    /\ last.pc = "done"
    /\ last.claimResp.kind = "transport"
    /\ last.balResp.kind = "transport"
    /\ config.BarkURL # ""
    /\ last.barkSent = <<"Follow: Error: context deadline exceeded">>

ClaimSucceeded(r) == r.ret.err = "" /\ r.ret.msg = "Claim Points Success"

\* C7 as stated: signFollow succeeds for every status from 200 to 299 and
\* fails only for other statuses and transport errors.
C7_SuccessOnAny2xx ==
    \A r \in ClaimAnswered :
        ClaimSucceeded(r) <=> (r.claimResp.kind = "http" /\ r.claimResp.status \in 200..299)

\* C7 amended: signFollow succeeds, with "Claim Points Success", exactly for
\* status 200; every other status, 2xx included, and every transport error
\* is a failure.
C7_SuccessOnlyOn200 ==
    \A r \in ClaimAnswered :
        /\ ClaimSucceeded(r) <=> (r.claimResp.kind = "http" /\ r.claimResp.status = 200)
        /\ ~ClaimSucceeded(r) => (r.ret.err # "" /\ r.ret.msg = "")

C7_Witness ==
    /\ last.pc = "done"
    /\ last.claimResp.status = 201
    /\ last.ret.err = "Claim Points Failed: <nil>"

\* C8 as stated: with the run-immediately flag set, exactly one run has
\* completed when the trigger is armed; with it unset, none runs before the
\* first firing.
C8_RunImmediately ==
    /\ (env.RUN_IMMEDIATELY # "" /\ armed /\ fired = 0) => completed = 1
    /\ (env.RUN_IMMEDIATELY = "" /\ fired = 0) => (completed = 0 /\ runs = <<>>)

\* C8 amended: whatever the run-immediately flag, no run executes at
\* startup; no request is made before the first daily firing.
C8_NoRunBeforeFirstFiring ==
    fired = 0 => (runs = <<>> /\ completed = 0 /\ requests = 0 /\ last = NoRun)

C8_Witness ==
    /\ env.RUN_IMMEDIATELY = "true"
    /\ armed
    /\ clock = DayTicks
    /\ fired = 0
    /\ requests = 0

BadConfiguration(e) ==
    \/ e.COOKIE = ""
    \/ e.USER_ID = ""
    \/ ~TimeOK(e.SCHEDULED_TIME)
    \/ ~IsNumber(e.TIMEZONE_OFFSET)

\* C9: a fatal configuration error ends the process, with a non-zero exit
\* code, before the scheduler is started: the scheduler is never armed and
\* no request is ever made.
C9_FatalBeforeArmed ==
    /\ pc = "exited" =>
           (exitCode # 0 /\ ~armed /\ fired = 0 /\ runs = <<>> /\ requests = 0)
    /\ BadConfiguration(env) =>
           (~armed /\ pc \notin {"start", "blocked"} /\ fired = 0 /\ requests = 0)

C9_Witness ==
    /\ pc = "exited"
    /\ env.COOKIE # ""
    /\ env.USER_ID # ""
    /\ env.TIMEZONE_OFFSET = "8"
    /\ env.SCHEDULED_TIME = "a:5"
    /\ exitCode = 1

(***************************************************************************)
(* parseScheduledTime on its own: every string up to MaxLen characters     *)
(* over ParseAlphabet.                                                     *)
(***************************************************************************)
ParseAlphabet == {"0", "2", "5", ":", "a", "-"}

RECURSIVE Strings(_)
Strings(n) ==
    IF n = 0 THEN {""}
    ELSE LET shorter == Strings(n - 1)
         IN  shorter \cup {s \o c : s \in shorter, c \in ParseAlphabet}

InitParse ==
    /\ arg \in Strings(MaxLen)
    /\ parsed = NotParsed
    /\ env = BaseEnvironment
    /\ pc = "init"
    /\ config = NoConfig
    /\ hour = 0
    /\ minute = 0
    /\ entries = 0
    /\ armed = FALSE
    /\ exitCode = 0
    /\ mainLog = <<>>
    /\ clock = 0
    /\ fired = 0
    /\ runs = <<>>
    /\ last = NoRun
    /\ completed = 0
    /\ reports = <<>>
    /\ requests = 0

ParseCall ==
    /\ parsed = NotParsed
    /\ parsed' = CallParseScheduledTime(arg)
    /\ UNCHANGED <<arg, env, pc, config, hour, minute, entries, armed, exitCode,
                   mainLog, clock, fired, runs, last, completed, reports, requests>>

NextParse == ParseCall

SpecParse == InitParse /\ [][NextParse]_vars

\* One or two digits, read by position.
IsField(p) == Len(p) \in 1..2 /\ \A i \in 1..Len(p) : IsDigit(Char(p, i))

FieldVal(p) ==
    IF Len(p) = 1 THEN DigitVal(p)
    ELSE 10 * DigitVal(Char(p, 1)) + DigitVal(Char(p, 2))

\* The part of s before its first colon and the part after it.
Before(s) == SubSeq(s, 1, (CHOOSE i \in 1..Len(s) : Char(s, i) = ":") - 1)
After(s) == SubSeq(s, (CHOOSE i \in 1..Len(s) : Char(s, i) = ":") + 1, Len(s))

Malformed(s) ==
    \/ Count(s, ":") # 1
    \/ ~IsNumber(Before(s))
    \/ ~IsNumber(After(s))

\* An hour and a minute of the day, of one or two digits each, around one
\* colon.
IsHHMM(s) ==
    /\ Count(s, ":") = 1
    /\ IsField(Before(s)) /\ FieldVal(Before(s)) \in 0..23
    /\ IsField(After(s)) /\ FieldVal(After(s)) \in 0..59

\* C10: parseScheduledTime returns (h, m) and no error for every HH:MM with
\* h in 0..23 and m in 0..59, and an error for every string that has not
\* exactly one colon or whose hour or minute part is not a number.
C10_ParseScheduledTime ==
    parsed # NotParsed =>
        /\ IsHHMM(arg) =>
               parsed = [hour |-> FieldVal(Before(arg)),
                         minute |-> FieldVal(After(arg)), err |-> ""]
        /\ Malformed(arg) => parsed.err # ""

C10_Witness ==
    /\ arg = "20:55"
    /\ parsed = [hour |-> 20, minute |-> 55, err |-> ""]

(***************************************************************************)
(* getCoinBalance on its own: every wallet answer of WalletResponses.      *)
(***************************************************************************)
\* A wallet object holding dailyPowerToken = v.
Wallet(v) == JObj({<<"dailyPowerToken", v>>})

\* Values that are not a string, for data, data[0] and dailyPowerToken.
NonStrings == {JNull, JNum(5), JArr(<<>>), JObj({})}

WalletBodies ==
    \* no data field, or one that is no array, or an empty array
    {JObj({}), JObj({<<"message", JStr("ok")>>})}
        \cup {JObj({<<"data", v>>}) : v \in (NonStrings \ {JArr(<<>>)}) \cup {JStr("x")}}
        \cup {JObj({<<"data", JArr(<<>>)>>})}
    \* a first element that is no object, or one without a string token
        \cup {JObj({<<"data", JArr(<<v>>)>>}) : v \in {JNull, JNum(5), JStr("x"), JArr(<<>>)}}
        \cup {JObj({<<"data", JArr(<<JObj({})>>)>>}),
              JObj({<<"data", JArr(<<JObj({<<"cashablePowerToken", JStr("7")>>})>>)>>})}
        \cup {JObj({<<"data", JArr(<<Wallet(v)>>)>>}) : v \in NonStrings}
    \* a string token, alone or followed by a second wallet
        \cup {JObj({<<"data", JArr(<<Wallet(JStr(t))>>)>>}) : t \in TokenStrings}
        \cup {JObj({<<"data", JArr(<<Wallet(JStr(DailyToken)), JNull>>)>>})}

WalletResponses == {HTTPResponse(StatusOK, b) : b \in WalletBodies}

InitBalance ==
    /\ arg \in WalletResponses
    /\ parsed = NotParsed
    /\ env = BaseEnvironment
    /\ pc = "init"
    /\ config = NoConfig
    /\ hour = 0
    /\ minute = 0
    /\ entries = 0
    /\ armed = FALSE
    /\ exitCode = 0
    /\ mainLog = <<>>
    /\ clock = 0
    /\ fired = 0
    /\ runs = <<>>
    /\ last = NoRun
    /\ completed = 0
    /\ reports = <<>>
    /\ requests = 0

BalanceCall ==
    /\ parsed = NotParsed
    /\ parsed' = getCoinBalance(arg)
    /\ UNCHANGED <<arg, env, pc, config, hour, minute, entries, armed, exitCode,
                   mainLog, clock, fired, runs, last, completed, reports, requests>>

NextBalance == BalanceCall

SpecBalance == InitBalance /\ [][NextBalance]_vars

\* The parts of the answer a stage of getBalance looks at.
DataOf(resp) == Lookup(resp.body.o, "data")
FirstOf(resp) == DataOf(resp).a[1]
TokenOf(resp) == Lookup(FirstOf(resp).o, "dailyPowerToken")

NoData(resp) == DataOf(resp).t # "arr" \/ DataOf(resp).a = <<>>

BadShape(resp) ==
    /\ ~NoData(resp)
    /\ FirstOf(resp).t # "obj" \/ TokenOf(resp).t # "str"

HasToken(resp) == ~NoData(resp) /\ ~BadShape(resp)

\* A decimal numeral: an optional sign, digits around at most one point, and
\* an optional exponent of digits with an optional sign.
IsDecimal(s) ==
    LET unsigned(t) == IF t # "" /\ Char(t, 1) \in {"+", "-"} THEN Tail(t) ELSE t
        isDigits(t) == t # "" /\ \A i \in 1..Len(t) : IsDigit(Char(t, i))
        parts == Split(ToLower(unsigned(s)), "e")
        mant  == Split(parts[1], ".")
    IN  /\ Len(parts) <= 2
        /\ Len(mant) <= 2
        /\ \A i \in 1..Len(mant) : mant[i] = "" \/ isDigits(mant[i])
        /\ \E i \in 1..Len(mant) : mant[i] # ""
        /\ Len(parts) = 2 => isDigits(unsigned(parts[2]))

\* The failure kind a result carries.
Kind(result) ==
    CASE result.err = "" -> "success"
      [] result.err = "no wallet data found" -> "no data"
      [] result.err \in {"invalid wallet data format",
                         "dailyPowerToken not found or invalid"} -> "bad shape"
      [] Len(result.err) > 32
           /\ SubSeq(result.err, 1, 32) = "failed to parse dailyPowerToken:"
           -> "unparseable number"
      [] OTHER -> "other"

\* C11: for a received balance response, getBalance fails with 'no data' when
\* data is missing, no array or empty, with 'bad shape' when the first element
\* is no object or its dailyPowerToken is missing or no string, with
\* 'unparseable number' when dailyPowerToken is a string that is not numeric,
\* and succeeds only when every stage passes.
C11_DistinctFailureKinds ==
    parsed # NotParsed =>
        /\ NoData(arg) => Kind(parsed) = "no data"
        /\ BadShape(arg) => Kind(parsed) = "bad shape"
        /\ (HasToken(arg) /\ ~IsDecimal(TokenOf(arg).s)) =>
               Kind(parsed) = "unparseable number"
        /\ Kind(parsed) = "success" => (HasToken(arg) /\ IsDecimal(TokenOf(arg).s))

\* The decimal string of a natural number.
IsInteger(s) ==
    /\ s # ""
    /\ \A i \in 1..Len(s) : IsDigit(Char(s, i))
    /\ Len(s) > 1 => Char(s, 1) # "0"

\* The digits k written as a fixed-point string of FracDigits decimals.
FixedPoint(k) ==
    LET padded == Zeros(FracDigits + 1 - Len(k)) \o k
        cut    == Len(padded) - FracDigits
    IN  FromDigits(SubSeq(padded, 1, cut)) \o "."
            \o FromDigits(SubSeq(padded, cut + 1, Len(padded)))

\* n / 10^18 to six decimals, in exact decimal arithmetic: the nearest such
\* string, either neighbour when n / 10^18 lies halfway between two.
NearestSix(s) ==
    LET drop   == ScaleDigits - FracDigits
        padded == Zeros(drop + 1 - Len(s)) \o ToDigits(s)
        down   == Trim(SubSeq(padded, 1, Len(padded) - drop))
        rest   == SubSeq(padded, Len(padded) - drop + 1, Len(padded))
        tie    == rest[1] = 5 /\ \A i \in 2..drop : rest[i] = 0
    IN  IF tie THEN {FixedPoint(down), FixedPoint(Succ(down))}
        ELSE IF rest[1] >= 5 THEN {FixedPoint(Succ(down))}
        ELSE {FixedPoint(down)}

\* C16: for a balance response whose dailyPowerToken is the decimal string of
\* an integer n, getBalance returns n / 10^18 as a fixed-point string of six
\* fractional digits; "1230000000000000000" gives "1.230000".
C16_BalanceScaledBy1e18 ==
    (parsed # NotParsed /\ HasToken(arg) /\ IsInteger(TokenOf(arg).s)) =>
        /\ parsed.err = ""
        /\ parsed.val \in NearestSix(TokenOf(arg).s)
        /\ TokenOf(arg).s = "1230000000000000000" => parsed.val = "1.230000"

(***************************************************************************)
(* Properties of the runs: the sinks.                                      *)
(***************************************************************************)
ChatConfigured == config.TelegramToken # "" /\ config.TelegramChatID # ""

\* The text getCoinBalance gave the run: its value, or its error.
BalanceText(r) ==
    LET b == getCoinBalance(r.balResp) IN IF b.err # "" THEN b.err ELSE b.val

CompletionLines(r) ==
    Cardinality({i \in 1..Len(r.log) : r.log[i] = "Scheduled task completed."})

\* C12: with token and chat id both set, a run hands exactly one message to
\* the chat sink, holding the claim text and the balance text of that run,
\* and logs exactly one completion line; with either of them empty it sends
\* no chat message and still logs the completion line.
C12_OneChatMessagePerRun ==
    \A r \in AllRuns :
        /\ (ChatConfigured /\ r.pc \in {"telegram", "done"}) =>
               /\ Len(r.tgSent) = 1
               /\ Len(r.tgSent[1]) = 8
               /\ r.tgSent[1][4] = ClaimText(r)
               /\ r.tgSent[1][6] = BalanceText(r)
        /\ (~ChatConfigured \/ r.pc \notin {"telegram", "done"}) => r.tgSent = <<>>
        /\ ~ChatConfigured => r.pc # "telegram"
        /\ CompletionLines(r) = IF r.pc = "done" THEN 1 ELSE 0

C12_Witness ==
    /\ ChatConfigured
    /\ last.pc = "done"
    /\ Len(last.tgSent) = 1
    /\ last.tgSent[1][4] = "Claim Points Success"
    /\ last.tgSent[1][6] = "1.230000"
    /\ CompletionLines(last) = 1

\* The line the closure logs when sendToTelegram returns an error.
TelegramFailed(r) ==
    \E i \in 1..Len(r.log) : HasPrefix(r.log[i], "Failed to send Telegram message")

SinkFailuresIsolated ==
    /\ \A r \in AllRuns :
           /\ BarkFailed(r) =>
                  /\ r.signFollowDone
                  /\ r.ret = signFollow(r.claimResp)
                  /\ r.claimResult = ClaimText(r)
                  /\ r.pc = "balance" \/ r.balanceDone
                  /\ (ChatConfigured /\ r.balanceDone) =>
                         (Len(r.tgSent) = 1 /\ r.tgSent[1][4] = ClaimText(r))
           /\ TelegramFailed(r) => (r.pc = "done" /\ CompletionLines(r) = 1)
    /\ (\E r \in AllRuns : BarkFailed(r) \/ TelegramFailed(r)) =>
           (pc = "blocked" /\ exitCode = 0)

\* C13: a push request that fails leaves signFollow's result as it was and
\* the run goes on to its wallet request and its chat message; a chat
\* delivery that fails is only logged and the run completes.
C13_SinkFailuresIsolated ==
    /\ []SinkFailuresIsolated
    /\ \A k \in 1..MaxRuns :
           (\E i \in 1..Len(runs) : runs[i].id = k /\ BarkFailed(runs[i]))
               ~> (completed >= k)

C13_Witness ==
    /\ last.pc = "done"
    /\ BarkFailed(last)
    /\ TelegramFailed(last)
    /\ last.claimResult = "Claim Points Success"
    /\ Len(last.tgSent) = 1

(***************************************************************************)
(* Properties of successive runs.                                          *)
(***************************************************************************)
\* The report as a function of what the run itself received: the answers to
\* its two requests, the configuration and the time of its firing.
ReportFrom(claimResp, balResp, r) ==
    LET sf == signFollow(claimResp)
        b  == getCoinBalance(balResp)
    IN  FormatLogMessage(IF sf.err # "" THEN sf.err ELSE sf.msg,
                         IF b.err # "" THEN b.err ELSE b.val,
                         currentDate(r))

\* C14: the report of a run is determined by the answers received in that
\* run, the configuration and the clock, whatever the runs before it did: a
\* run whose claim succeeds followed by one whose claim is answered 'already
\* claimed' gives a success report and then a failure report.
C14_RunsShareNoState ==
    /\ Len(reports) = completed
    /\ \A r \in AllRuns :
           r.balanceDone => r.logMessage = ReportFrom(r.claimResp, r.balResp, r)
    /\ last.pc = "done" =>
           /\ reports[Len(reports)] = last.logMessage[2]
           /\ last.claimResp.status = StatusOK =>
                  reports[Len(reports)] = "Claim Points Success"
           /\ last.claimResp.status = 400 =>
                  reports[Len(reports)] = "Claim Points Failed: already claimed"

C14_Witness ==
    /\ last.pc = "done"
    /\ last.id = 2
    /\ last.claimResp.status = 400
    /\ reports = <<"Claim Points Success", "Claim Points Failed: already claimed">>

(***************************************************************************)
(* Properties of the credential.                                           *)
(***************************************************************************)
\* The credential has no part that begins with the anti-forgery key.
LacksCSRF(cookie) ==
    \A q \in CookieParts(cookie) : ~HasPrefix(q, CSRFField \o "=")

\* C15: with a session credential that lacks the anti-forgery field the
\* process is not ended, signFollow never reports success, and the run's
\* report carries the claim failure like any other.
C15_MissingCSRFIsClaimFailure ==
    LacksCSRF(config.Cookie) =>
        /\ armed => (pc = "blocked" /\ exitCode = 0)
        /\ \A r \in AllRuns :
               /\ r.signFollowDone => (r.ret.err # "" /\ r.claimResult = r.ret.err)
               /\ r.balanceDone => r.logMessage[2] = r.ret.err

(***************************************************************************)
(* Properties of the scheduler.                                            *)
(***************************************************************************)
\* C17: at most one run is in progress at any time: no firing starts a run
\* while the run of an earlier firing has not completed, however long the
\* requests take within the client timeout.
C17_OneRunAtATime ==
    /\ [](Len(runs) <= 1)
    /\ [][fired' = fired + 1 => (runs = <<>> /\ completed = fired)]_vars

\* A run whose four requests each took the whole timeout, completed before
\* the next firing.
C17_Witness ==
    /\ fired = 1
    /\ completed = 1
    /\ clock = 4 * TimeoutTicks
    /\ last.pc = "done"
    /\ last.claimResp.kind = "transport"
    /\ last.balResp.kind = "transport"
    /\ BarkFailed(last)
    /\ TelegramFailed(last)

\* The hour and minute the environment asks for (00:05 when unset).
ConfiguredTime ==
    IF env.SCHEDULED_TIME = "" THEN <<0, 5>>
    ELSE <<FieldVal(Before(env.SCHEDULED_TIME)), FieldVal(After(env.SCHEDULED_TIME))>>

\* C18: the scheduler is armed once, at startup after the trigger time has
\* parsed, and stays armed; while armed the trigger fires once per day, at
\* the configured hour and minute, and a firing whose time passed before
\* the start is not made up for.
C18_ArmedOnceDailyFiring ==
    /\ [][armed' # armed =>
              (/\ ~armed /\ armed'
               /\ pc = "start"
               /\ entries = 1
               /\ env.SCHEDULED_TIME = "" \/ IsHHMM(env.SCHEDULED_TIME))]_vars
    /\ [](armed => (pc = "blocked" /\ entries = 1 /\ <<hour, minute>> = ConfiguredTime))
    /\ [][fired' # fired =>
              (/\ armed
               /\ clock = DayTicks /\ clock' = 0
               /\ fired' = fired + 1
               /\ Len(runs') = Len(runs) + 1)]_vars
    /\ [](clock <= DayTicks)
    /\ []((armed /\ clock = DayTicks /\ fired < MaxRuns) =>
              (ENABLED Fire /\ ~ENABLED Tick))
    /\ []((armed /\ fired = 0) => (runs = <<>> /\ requests = 0 /\ completed = 0))

C18_Witness ==
    /\ armed
    /\ fired = 2
    /\ clock = 0
    /\ hour = 7
    /\ minute = 30
    /\ Len(runs) = 1

(***************************************************************************)
(* Properties of the order of the requests of a run.                       *)
(***************************************************************************)
\* C19: in a run the claim request, and the push request if there is one,
\* are answered before the wallet request is made, and the chat message is
\* sent only when both results are there: never before the wallet request
\* of that run has returned.
C19_CallsInOrder ==
    \A r \in AllRuns :
        /\ r.pc \in {"claim", "bark"} =>
               (r.balResp = NoResp /\ ~r.balanceDone /\ ~r.signFollowDone
                    /\ r.tgSent = <<>>)
        /\ r.pc = "claim" => (r.claimResp = NoResp /\ r.barkSent = <<>>)
        /\ r.pc = "bark" => (r.claimResp # NoResp /\ r.barkSent # <<>>)
        /\ r.pc = "balance" =>
               (r.claimResp # NoResp /\ r.signFollowDone /\ r.balResp = NoResp
                    /\ ~r.balanceDone /\ r.tgSent = <<>>)
        /\ r.tgSent # <<>> =>
               (r.signFollowDone /\ r.balanceDone /\ r.claimResp # NoResp
                    /\ r.balResp # NoResp)
        /\ r.pc \in {"telegram", "done"} => (r.signFollowDone /\ r.balanceDone)

C19_Witness ==
    \E i \in 1..Len(runs) :
        /\ runs[i].pc = "telegram"
        /\ runs[i].barkSent # <<>>
        /\ runs[i].balResp.status = StatusOK
        /\ Len(runs[i].tgSent) = 1

(***************************************************************************)
(* Properties of the push sink as signFollow uses it.                      *)
(***************************************************************************)
\* C20 as stated: a call of signFollow calls the push sink at most once, a
\* claim that succeeds sends no push, and no push request is made when the
\* push URL is unset.
C20_PushOnlyForAlerts ==
    \A r \in ClaimAnswered :
        /\ Len(r.barkCalls) <= 1
        /\ ClaimSucceeded(r) => r.barkSent = <<>>
        /\ config.BarkURL = "" => r.barkSent = <<>>

\* C20 amended: a call of signFollow calls the push sink at most once and no
\* push request is made when the push URL is unset; a claim that succeeds
\* calls the sink once with "Claim Points Success", which is posted when the
\* push URL is set.
C20_PushAtMostOnce ==
    \A r \in ClaimAnswered :
        /\ Len(r.barkCalls) <= 1
        /\ r.barkCalls = r.ret.bark
        /\ r.barkSent = IF config.BarkURL # "" THEN r.barkCalls ELSE <<>>
        /\ ClaimSucceeded(r) => r.barkCalls = <<"Claim Points Success">>

C20_Witness ==
    /\ last.pc = "done"
    /\ ClaimSucceeded(last)
    /\ last.claimResp.status = StatusOK
    /\ config.BarkURL # ""
    /\ last.barkSent = <<"Claim Points Success">>

====
